---- MODULE Spec2Model ----
(***************************************************************************)
(* State-machine model of the per-ticker signal watchers of                *)
(* tpx-signal-watch:                                                       *)
(*   Variant A  src/3_lines_method.py  analyze_three_tracks / run_radar    *)
(*   Variant B  src/main.py            get_mac_status / run_radar          *)
(* A calendar date is a positive day number; None (no date) is 0.          *)
(***************************************************************************)
EXTENDS Integers, Sequences, FiniteSets, TLC

VARIABLES
    variant,        \* which program is running: "A" or "B"
    WATCH_LIST,     \* the configured watch list (a sequence of tickers)
    today,          \* datetime.now().date()
    ticker_states,  \* Variant A: ticker -> state record
    mac_states,     \* Variant B: ticker -> state record (main.py's ticker_states)
    ret,            \* what the evaluator returned, when the last step was a call of it
    alerts_today,   \* ticker -> number of should_alert=True returns on `today`
    scenario,       \* ticker -> progress of the four-day scenario of Variant A
    entered,        \* ticker -> date the current non-zero stage was entered
    pos,            \* run_radar's loop: index in WATCH_LIST of the next ticker
    alert_list,     \* Variant A: the alerts collected so far in this scan cycle
    cycle,          \* the tickers evaluated in this scan cycle, in order
    pushed,         \* the push requests of this scan cycle on the current date and
                    \* how each ended
    network,        \* whether the push service can be reached: "up" or "down"
    beat            \* fair schedule: parity of the number of calls that got bars

vars == <<variant, WATCH_LIST, today, ticker_states, mac_states, ret, alerts_today,
          scenario, entered, pos, alert_list, cycle, pushed, network, beat>>

----------------------------------------------------------------------------
(* Bounds of the model *)

MaxDay == 17

(* Program constants *)

None == 0
RSI_OVERSOLD == 30
MIN_BARS_A == 50
STAGE1_TIMEOUT == 10
STAGE2_TIMEOUT == 15
STAGE3_REARM == 5
RSI_MIN_SENTINEL == 100
MIN_BARS_B == 30
LOOKBACK == 100
Unset == -1
NoIndex == -1

Tickers == DOMAIN ticker_states

----------------------------------------------------------------------------
(* Bars: what yf.download returns, reduced to what the track evaluators    *)
(* read from it.  download is "raise" when the download throws; nbars is   *)
(* len(df); columns tells which columns the frame has: an evaluator that   *)
(* indexes a missing column throws inside its try block.                   *)

Columns == {"all", "no_Low", "no_Close"}

LowBars == {[low |-> l, lower_band |-> 100] : l \in {100, 101}}

RsiBars == {[prev_rsi |-> x[1], rsi |-> x[2]] : x \in {<<25, 25>>, <<25, 32>>, <<32, 32>>}}

MacdBars ==
    {[prev_dif |-> x[1], prev_dea |-> 0, dif |-> x[2], dea |-> 0] :
        x \in {<<-1, 0>>, <<0, 0>>, <<0, 1>>}}

NoLow == [low |-> 0, lower_band |-> 0]
NoRsi == [prev_rsi |-> 0, rsi |-> 0]
NoMacd == [prev_dif |-> 0, prev_dea |-> 0, dif |-> 0, dea |-> 0]

Frame(download, nbars, columns, t1, t2, t3) ==
    [download |-> download, nbars |-> nbars, columns |-> columns,
     t1 |-> t1, t2 |-> t2, t3 |-> t3]

FetchFailures ==
    {Frame("raise", 0, "all", NoLow, NoRsi, NoMacd)} \cup
    {Frame("ok", n, "all", NoLow, NoRsi, NoMacd) : n \in {0, 49}}

DailyBars ==
    FetchFailures \cup
    {Frame("ok", 50, "all", a, b, c) : a \in LowBars, b \in RsiBars, c \in MacdBars} \cup
    {Frame("ok", 50, "no_Low", NoLow, b, c) : b \in RsiBars, c \in MacdBars} \cup
    {Frame("ok", 50, "no_Close", NoLow, NoRsi, NoMacd)}

Raises1(df) == df.columns \in {"no_Low", "no_Close"}
RaisesClose(df) == df.columns = "no_Close"

----------------------------------------------------------------------------
(* Track evaluators *)

track1_touch_lower_band(df) ==
    IF Raises1(df)
    THEN [is_touched |-> FALSE, status |-> "Error"]
    ELSE LET is_touched == df.t1.low <= df.t1.lower_band
         IN  [is_touched |-> is_touched,
              status |-> IF is_touched THEN "OK_Touched" ELSE "Above_Band"]

track2_rsi_reversal(df) ==
    IF RaisesClose(df)
    THEN [is_reversed |-> FALSE, current_rsi |-> 0, status |-> "Error"]
    ELSE LET is_reversed == (df.t2.prev_rsi < RSI_OVERSOLD) /\ (df.t2.rsi >= RSI_OVERSOLD)
             in_oversold == df.t2.rsi < RSI_OVERSOLD
         IN  [is_reversed |-> is_reversed,
              current_rsi |-> df.t2.rsi,
              status |-> IF is_reversed THEN "OK_Reversed"
                         ELSE IF in_oversold THEN "InOversold" ELSE "RSI"]

track3_macd_golden_cross(df) ==
    IF RaisesClose(df)
    THEN [is_confirmed |-> FALSE, status |-> "Error"]
    ELSE LET current_hist == df.t3.dif - df.t3.dea
             prev_hist == df.t3.prev_dif - df.t3.prev_dea
             is_golden_cross == (df.t3.prev_dif <= df.t3.prev_dea) /\ (df.t3.dif > df.t3.dea)
             histogram_turning_red == (prev_hist < 0) /\ (current_hist >= 0)
         IN  [is_confirmed |-> is_golden_cross \/ histogram_turning_red,
              status |-> IF is_golden_cross THEN "OK_GoldenCross"
                         ELSE IF histogram_turning_red THEN "OK_HistRed"
                         ELSE IF df.t3.dif > df.t3.dea THEN "Above_DIF" ELSE "Below_DIF"]

----------------------------------------------------------------------------
(* stage_history entries: f"S1_{today}" is the tag, the separator and the *)
(* decimal digits of the date; split("_")[1] and strptime read them back.  *)

DateStr(d) == <<d \div 10, d % 10>>

HistoryEntry(tag, d) == <<tag, "_">> \o DateStr(d)

SplitDate(entry) == SubSeq(entry, 3, Len(entry))

Strptime(s) == s[1] * 10 + s[2]

----------------------------------------------------------------------------
(* Variant A: the state machine of analyze_three_tracks *)

InitialStateA ==
    [stage |-> 0, touch_date |-> None, rsi_min |-> RSI_MIN_SENTINEL,
     alert_date |-> None, stage_history |-> <<>>]

Result(state, stage, status, should_alert) ==
    [state |-> state, stage |-> stage, status |-> status, should_alert |-> should_alert]

(* Mutant: the band-touch branch forgets to seed rsi_min with the reading *)
Stage0Rule_NoRsi(state, touched, rsi, d) ==
    IF touched
    THEN Result([state EXCEPT !.stage = 1, !.touch_date = d,
                              !.stage_history = Append(@, HistoryEntry("S1", d))],
                1, "S1_Touched", FALSE)
    ELSE Result(state, 0, "S0_Waiting", FALSE)

Stage0Rule(state, touched, rsi, d) ==
    IF touched
    THEN Result([state EXCEPT !.stage = 1, !.touch_date = d, !.rsi_min = rsi,
                              !.stage_history = Append(@, HistoryEntry("S1", d))],
                1, "S1_Touched", FALSE)
    ELSE Result(state, 0, "S0_Waiting", FALSE)

(* Mutant: the timeout is tested before the reversal *)
Stage1Rule_TimeoutFirst(state, reversed, rsi, d) ==
    LET s1 == IF rsi < state.rsi_min THEN [state EXCEPT !.rsi_min = rsi] ELSE state
    IN  IF s1.touch_date # None /\ (d - s1.touch_date) > STAGE1_TIMEOUT
        THEN Result([s1 EXCEPT !.stage = 0, !.rsi_min = RSI_MIN_SENTINEL,
                               !.stage_history = <<>>],
                    0, "S0_Reset_Timeout", FALSE)
        ELSE IF reversed
        THEN Result([s1 EXCEPT !.stage = 2,
                               !.stage_history = Append(@, HistoryEntry("S2", d))],
                    2, "S2_Reversed", FALSE)
        ELSE Result(s1, 1, "S1_WaitRSI", FALSE)

(* Mutant: the timeout fires at 10 days already (>= for >) *)
Stage1Rule_OffByOne(state, reversed, rsi, d) ==
    LET s1 == IF rsi < state.rsi_min THEN [state EXCEPT !.rsi_min = rsi] ELSE state
    IN  IF reversed
        THEN Result([s1 EXCEPT !.stage = 2,
                               !.stage_history = Append(@, HistoryEntry("S2", d))],
                    2, "S2_Reversed", FALSE)
        ELSE IF s1.touch_date # None /\ (d - s1.touch_date) >= STAGE1_TIMEOUT
        THEN Result([s1 EXCEPT !.stage = 0, !.rsi_min = RSI_MIN_SENTINEL,
                               !.stage_history = <<>>],
                    0, "S0_Reset_Timeout", FALSE)
        ELSE Result(s1, 1, "S1_WaitRSI", FALSE)

(* Mutant: the reversal already reports an alert *)
Stage1Rule_Alerts(state, reversed, rsi, d) ==
    LET s1 == IF rsi < state.rsi_min THEN [state EXCEPT !.rsi_min = rsi] ELSE state
    IN  IF reversed
        THEN Result([s1 EXCEPT !.stage = 2,
                               !.stage_history = Append(@, HistoryEntry("S2", d))],
                    2, "S2_Reversed", TRUE)
        ELSE IF s1.touch_date # None /\ (d - s1.touch_date) > STAGE1_TIMEOUT
        THEN Result([s1 EXCEPT !.stage = 0, !.rsi_min = RSI_MIN_SENTINEL,
                               !.stage_history = <<>>],
                    0, "S0_Reset_Timeout", FALSE)
        ELSE Result(s1, 1, "S1_WaitRSI", FALSE)

(* Mutant: the reversal stores stage 3 *)
Stage1Rule_SkipsStage(state, reversed, rsi, d) ==
    LET s1 == IF rsi < state.rsi_min THEN [state EXCEPT !.rsi_min = rsi] ELSE state
    IN  IF reversed
        THEN Result([s1 EXCEPT !.stage = 3,
                               !.stage_history = Append(@, HistoryEntry("S2", d))],
                    3, "S2_Reversed", FALSE)
        ELSE IF s1.touch_date # None /\ (d - s1.touch_date) > STAGE1_TIMEOUT
        THEN Result([s1 EXCEPT !.stage = 0, !.rsi_min = RSI_MIN_SENTINEL,
                               !.stage_history = <<>>],
                    0, "S0_Reset_Timeout", FALSE)
        ELSE Result(s1, 1, "S1_WaitRSI", FALSE)

Stage1Rule(state, reversed, rsi, d) ==
    LET s1 == IF rsi < state.rsi_min THEN [state EXCEPT !.rsi_min = rsi] ELSE state
    IN  IF reversed
        THEN Result([s1 EXCEPT !.stage = 2,
                               !.stage_history = Append(@, HistoryEntry("S2", d))],
                    2, "S2_Reversed", FALSE)
        ELSE IF s1.touch_date # None /\ (d - s1.touch_date) > STAGE1_TIMEOUT
        THEN Result([s1 EXCEPT !.stage = 0, !.rsi_min = RSI_MIN_SENTINEL,
                               !.stage_history = <<>>],
                    0, "S0_Reset_Timeout", FALSE)
        ELSE Result(s1, 1, "S1_WaitRSI", FALSE)

(* Mutant: the confirm branch updates a copy of the record, so neither the *)
(* stage nor alert_date is stored                                          *)
Stage2Confirm_NotStored(state, d) ==
    IF state.alert_date # d
    THEN Result(state, 3, "S3_BUY_SIGNAL", TRUE)
    ELSE Result(state, 3, "S3_Already_Alerted", FALSE)

(* Mutant: the confirm does not log its entry *)
Stage2Confirm_NoEntry(state, d) ==
    LET s3 == [state EXCEPT !.stage = 3]
    IN  IF s3.alert_date # d
        THEN Result([s3 EXCEPT !.alert_date = d], 3, "S3_BUY_SIGNAL", TRUE)
        ELSE Result(s3, 3, "S3_Already_Alerted", FALSE)

Stage2Confirm(state, d) ==
    LET s3 == [state EXCEPT !.stage = 3,
                            !.stage_history = Append(@, HistoryEntry("S3", d))]
    IN  IF s3.alert_date # d
        THEN Result([s3 EXCEPT !.alert_date = d], 3, "S3_BUY_SIGNAL", TRUE)
        ELSE Result(s3, 3, "S3_Already_Alerted", FALSE)

(* Mutant: the stage-2 reset also clears touch_date *)
Stage2Timeout_ClearsTouch(state, d) ==
    IF Len(state.stage_history) >= 2
    THEN LET s2_date == Strptime(SplitDate(state.stage_history[Len(state.stage_history)]))
         IN  IF (d - s2_date) > STAGE2_TIMEOUT
             THEN Result([state EXCEPT !.stage = 0, !.rsi_min = RSI_MIN_SENTINEL,
                                       !.touch_date = None, !.stage_history = <<>>],
                         0, "S0_Reset_Timeout", FALSE)
             ELSE Result(state, 2, "S2_WaitMACD", FALSE)
    ELSE Result(state, 2, "S2_WaitMACD", FALSE)

(* Mutant: the timeout reads the first entry of stage_history *)
Stage2Timeout_FirstEntry(state, d) ==
    IF Len(state.stage_history) >= 2
    THEN LET s2_date == Strptime(SplitDate(state.stage_history[1]))
         IN  IF (d - s2_date) > STAGE2_TIMEOUT
             THEN Result([state EXCEPT !.stage = 0, !.rsi_min = RSI_MIN_SENTINEL,
                                       !.stage_history = <<>>],
                         0, "S0_Reset_Timeout", FALSE)
             ELSE Result(state, 2, "S2_WaitMACD", FALSE)
    ELSE Result(state, 2, "S2_WaitMACD", FALSE)

(* Mutant: the timeout asks for more than two entries, which stage 2 never *)
(* has                                                                     *)
Stage2Timeout_Never(state, d) ==
    IF Len(state.stage_history) > 2
    THEN LET s2_date == Strptime(SplitDate(state.stage_history[Len(state.stage_history)]))
         IN  IF (d - s2_date) > STAGE2_TIMEOUT
             THEN Result([state EXCEPT !.stage = 0, !.rsi_min = RSI_MIN_SENTINEL,
                                       !.stage_history = <<>>],
                         0, "S0_Reset_Timeout", FALSE)
             ELSE Result(state, 2, "S2_WaitMACD", FALSE)
    ELSE Result(state, 2, "S2_WaitMACD", FALSE)

Stage2Timeout(state, d) ==
    IF Len(state.stage_history) >= 2
    THEN LET s2_date == Strptime(SplitDate(state.stage_history[Len(state.stage_history)]))
         IN  IF (d - s2_date) > STAGE2_TIMEOUT
             THEN Result([state EXCEPT !.stage = 0, !.rsi_min = RSI_MIN_SENTINEL,
                                       !.stage_history = <<>>],
                         0, "S0_Reset_Timeout", FALSE)
             ELSE Result(state, 2, "S2_WaitMACD", FALSE)
    ELSE Result(state, 2, "S2_WaitMACD", FALSE)

Stage2Rule(state, confirmed, d) ==
    IF confirmed THEN Stage2Confirm(state, d) ELSE Stage2Timeout(state, d)

(* Mutant: stage 3 alerts again on every new date *)
Stage3Rule_Realert(state, d) ==
    IF state.alert_date # None /\ (d - state.alert_date) > STAGE3_REARM
    THEN Result([state EXCEPT !.stage = 0, !.rsi_min = RSI_MIN_SENTINEL,
                              !.stage_history = <<>>],
                0, "S0_Reset_NewCycle", FALSE)
    ELSE IF state.alert_date # d
    THEN Result([state EXCEPT !.alert_date = d], 3, "S3_BUY_SIGNAL", TRUE)
    ELSE Result(state, 3, "S3_InPosition", FALSE)

(* Mutant: the re-arm steps the stage on instead of returning it to 0 *)
Stage3Rule_StepsOn(state, d) ==
    IF state.alert_date # None /\ (d - state.alert_date) > STAGE3_REARM
    THEN Result([state EXCEPT !.stage = @ + 1, !.rsi_min = RSI_MIN_SENTINEL,
                              !.stage_history = <<>>],
                0, "S0_Reset_NewCycle", FALSE)
    ELSE Result(state, 3, "S3_InPosition", FALSE)

(* Mutant: the re-arm forgets to clear stage_history *)
Stage3Rule_KeepsHistory(state, d) ==
    IF state.alert_date # None /\ (d - state.alert_date) > STAGE3_REARM
    THEN Result([state EXCEPT !.stage = 0, !.rsi_min = RSI_MIN_SENTINEL],
                0, "S0_Reset_NewCycle", FALSE)
    ELSE Result(state, 3, "S3_InPosition", FALSE)

(* Mutant: stage 3 re-arms on the day of the alert *)
Stage3Rule_RearmsAtOnce(state, d) ==
    IF state.alert_date # None /\ (d - state.alert_date) >= 0
    THEN Result([state EXCEPT !.stage = 0, !.rsi_min = RSI_MIN_SENTINEL,
                              !.stage_history = <<>>],
                0, "S0_Reset_NewCycle", FALSE)
    ELSE Result(state, 3, "S3_InPosition", FALSE)

(* Mutant: the re-arming call still returns stage 3 *)
Stage3Rule_ReturnsOld(state, d) ==
    IF state.alert_date # None /\ (d - state.alert_date) > STAGE3_REARM
    THEN Result([state EXCEPT !.stage = 0, !.rsi_min = RSI_MIN_SENTINEL,
                              !.stage_history = <<>>],
                3, "S0_Reset_NewCycle", FALSE)
    ELSE Result(state, 3, "S3_InPosition", FALSE)

Stage3Rule(state, d) ==
    IF state.alert_date # None /\ (d - state.alert_date) > STAGE3_REARM
    THEN Result([state EXCEPT !.stage = 0, !.rsi_min = RSI_MIN_SENTINEL,
                              !.stage_history = <<>>],
                0, "S0_Reset_NewCycle", FALSE)
    ELSE Result(state, 3, "S3_InPosition", FALSE)

(* Mutant: a scan without bars puts the ticker back to stage 0 *)
FetchFailed_Resets(state, df) ==
    IF df.download = "raise"
    THEN Result(state, 0, "Critical_Error", FALSE)
    ELSE Result([state EXCEPT !.stage = 0], 0, "Insufficient_Data", FALSE)

FetchFailed(state, df) ==
    IF df.download = "raise"
    THEN Result(state, 0, "Critical_Error", FALSE)
    ELSE Result(state, 0, "Insufficient_Data", FALSE)

StateMachine(state, df, d) ==
    LET t1 == track1_touch_lower_band(df)
        t2 == track2_rsi_reversal(df)
        t3 == track3_macd_golden_cross(df)
    IN  CASE state.stage = 0 -> Stage0Rule(state, t1.is_touched, t2.current_rsi, d)
          [] state.stage = 1 -> Stage1Rule(state, t2.is_reversed, t2.current_rsi, d)
          [] state.stage = 2 -> Stage2Rule(state, t3.is_confirmed, d)
          [] state.stage = 3 -> Stage3Rule(state, d)
          [] OTHER -> Result(state, 0, "Unknown_Stage", FALSE)

Fetched(df) == df.download = "ok" /\ df.nbars >= MIN_BARS_A

analyze_three_tracks(state, df, d) ==
    IF Fetched(df) THEN StateMachine(state, df, d) ELSE FetchFailed(state, df)

----------------------------------------------------------------------------
(* Observer of the four-day scenario: step k means that the last k         *)
(* evaluations of the ticker that had bars were, on consecutive days, a    *)
(* band-touch from stage 0, an RSI reversal, a MACD confirm and a MACD     *)
(* confirm again.  alerts counts the alerts returned by those evaluations. *)

NoScenario == [step |-> 0, day |-> None, alerts |-> 0]

ScenarioStep(sc, state, df, d, should_alert) ==
    LET a == IF should_alert THEN 1 ELSE 0
        next == sc.step + 1
        follows == sc.step \in 1..3 /\ d = sc.day + 1 /\
                   CASE next = 2 -> track2_rsi_reversal(df).is_reversed
                     [] next = 3 -> track3_macd_golden_cross(df).is_confirmed
                     [] next = 4 -> track3_macd_golden_cross(df).is_confirmed
                     [] OTHER -> FALSE
    IN  IF ~Fetched(df) THEN sc
        ELSE IF follows THEN [step |-> next, day |-> d, alerts |-> sc.alerts + a]
        ELSE IF state.stage = 0 /\ track1_touch_lower_band(df).is_touched
        THEN [step |-> 1, day |-> d, alerts |-> a]
        ELSE NoScenario

----------------------------------------------------------------------------
(* Variant B: 15-minute bars reduced to the DIF and DEA series that        *)
(* get_mac_status computes from them.  A series is a run of one sample     *)
(* followed by the two latest samples.                                     *)

Sample(dif, dea) == [dif |-> dif, dea |-> dea]

Samples ==
    {Sample(-1, -2), Sample(-2, -1), Sample(1, -1), Sample(2, 1), Sample(4, 3),
     Sample(0, 1), Sample(0, 0)}

OlderSamples == {Sample(-1, -2), Sample(2, 1)}

Series(n, a, b, c) == [i \in 1..n |-> IF i <= n - 2 THEN a ELSE IF i = n - 1 THEN b ELSE c]

FrameB(download, columns, series) ==
    [download |-> download, columns |-> columns, series |-> series]

FetchFailuresB ==
    {FrameB("raise", "all", <<>>), FrameB("ok", "all", <<>>),
     FrameB("ok", "all", Series(MIN_BARS_B - 1, Sample(2, 1), Sample(2, 1), Sample(2, 1))),
     FrameB("ok", "no_Close", Series(MIN_BARS_B, Sample(2, 1), Sample(2, 1), Sample(2, 1)))}

IntradayBars ==
    FetchFailuresB \cup
    {FrameB("ok", "all", Series(MIN_BARS_B, a, b, c)) :
        a \in OlderSamples, b \in Samples, c \in Samples}

(* series.iloc[i], i counted from 0 *)
Iloc(series, i) == series[i + 1]

Max(a, b) == IF a >= b THEN a ELSE b

(* dif_series.iloc[from:].max() *)
RECURSIVE MaxDifFrom(_, _)
MaxDifFrom(series, from) ==
    IF from >= Len(series) - 1 THEN Iloc(series, Len(series) - 1).dif
    ELSE Max(Iloc(series, from).dif, MaxDifFrom(series, from + 1))

(* The backward scan of lines 65-77: stops at the first negative DIF, and  *)
(* remembers the lowest index at which DIF came up through zero.           *)
RECURSIVE ScanBack(_, _, _, _)
ScanBack(series, i, stop, crossed) ==
    IF i <= stop THEN [underwater_gc_found |-> FALSE, dif_crossed_zero_idx |-> crossed]
    ELSE IF Iloc(series, i).dif < 0
    THEN [underwater_gc_found |-> Iloc(series, i).dea < Iloc(series, i).dif,
          dif_crossed_zero_idx |-> crossed]
    ELSE ScanBack(series, i - 1, stop,
                  IF i > 0 /\ Iloc(series, i - 1).dif < 0 /\ Iloc(series, i).dif > 0
                  THEN i ELSE crossed)

(* The forward scan of lines 84-87: the first index from i on with DEA > 0 *)
RECURSIVE FirstDeaAbove(_, _)
FirstDeaAbove(series, i) ==
    IF i >= Len(series) THEN NoIndex
    ELSE IF Iloc(series, i).dea > 0 THEN i
    ELSE FirstDeaAbove(series, i + 1)

(* The backward scan of lines 201-204: the latest index at which DIF came  *)
(* up through zero                                                         *)
RECURSIVE LastCross(_, _, _)
LastCross(series, i, stop) ==
    IF i <= stop THEN NoIndex
    ELSE IF i > 0 /\ Iloc(series, i - 1).dif < 0 /\ Iloc(series, i).dif > 0 THEN i
    ELSE LastCross(series, i - 1, stop)

Detected(stage, max_dif) == [stage |-> stage, max_dif |-> max_dif]

detect_current_stage(current_dif, current_dea, series) ==
    LET n == Len(series)
        stop == Max(0, n - LOOKBACK)
    IN  IF current_dif > 0 /\ current_dea > 0
        THEN LET back == ScanBack(series, n - 1, stop, NoIndex)
             IN  IF back.underwater_gc_found /\ back.dif_crossed_zero_idx # NoIndex
                 THEN LET dea_crossed_zero_idx ==
                              FirstDeaAbove(series, back.dif_crossed_zero_idx)
                      IN  IF dea_crossed_zero_idx # NoIndex
                          THEN Detected(3, MaxDifFrom(series, dea_crossed_zero_idx))
                          ELSE Detected(2, 0)
                 ELSE Detected(0, 0)
        ELSE IF current_dif > 0 /\ current_dea < 0
        THEN IF \E i \in (stop + 1)..(n - 1) :
                    Iloc(series, i).dif < 0 /\ Iloc(series, i).dea < Iloc(series, i).dif
             THEN Detected(2, 0)
             ELSE Detected(0, 0)
        ELSE IF current_dea < current_dif /\ current_dif < 0
        THEN Detected(1, 0)
        ELSE Detected(0, 0)

InitialStateB ==
    [stage |-> Unset, max_dif |-> 0, alert_date |-> None,
     stage1_confirmed |-> FALSE, stage2_confirmed |-> FALSE]

ResultB(state, status, should_alert) ==
    [state |-> state, status |-> status, should_alert |-> should_alert]

(* Mutant: a falsy detected stage (0) is not stored *)
InitializeStage_Falsy(state, current_dif, current_dea, series) ==
    IF state.stage = Unset
    THEN LET det == detect_current_stage(current_dif, current_dea, series)
         IN  CASE det.stage = 3 -> [state EXCEPT !.stage = 3, !.max_dif = det.max_dif,
                                                 !.stage1_confirmed = TRUE,
                                                 !.stage2_confirmed = TRUE]
               [] det.stage = 2 -> [state EXCEPT !.stage = 2, !.stage1_confirmed = TRUE]
               [] det.stage = 1 -> [state EXCEPT !.stage = 1, !.stage1_confirmed = TRUE]
               [] OTHER -> state
    ELSE state

(* Lines 146-159: the stage is inferred on the first call that gets bars *)
InitializeStage(state, current_dif, current_dea, series) ==
    IF state.stage = Unset
    THEN LET det == detect_current_stage(current_dif, current_dea, series)
         IN  CASE det.stage = 3 -> [state EXCEPT !.stage = 3, !.max_dif = det.max_dif,
                                                 !.stage1_confirmed = TRUE,
                                                 !.stage2_confirmed = TRUE]
               [] det.stage = 2 -> [state EXCEPT !.stage = 2, !.stage1_confirmed = TRUE]
               [] det.stage = 1 -> [state EXCEPT !.stage = 1, !.stage1_confirmed = TRUE]
               [] OTHER -> [state EXCEPT !.stage = det.stage]
    ELSE state

(* Mutant: the reset forgets to clear the peak *)
GlobalReset_KeepsPeak(state) ==
    ResultB([state EXCEPT !.stage = 0, !.alert_date = None,
                          !.stage1_confirmed = FALSE, !.stage2_confirmed = FALSE],
            "Stage0_Reset_DIF_Below_Zero", FALSE)

GlobalReset(state) ==
    ResultB([state EXCEPT !.stage = 0, !.max_dif = 0, !.alert_date = None,
                          !.stage1_confirmed = FALSE, !.stage2_confirmed = FALSE],
            "Stage0_Reset_DIF_Below_Zero", FALSE)

(* Mutant: the golden cross is accepted above zero as well *)
MacStage0_NoSign(state, current_dif, current_dea) ==
    IF current_dea < current_dif
    THEN ResultB([state EXCEPT !.stage = 1, !.stage1_confirmed = TRUE],
                 "Stage1_Underwater_GoldCross", FALSE)
    ELSE ResultB(state, "Stage0_Waiting", FALSE)

MacStage0(state, current_dif, current_dea) ==
    IF current_dea < current_dif /\ current_dif < 0
    THEN ResultB([state EXCEPT !.stage = 1, !.stage1_confirmed = TRUE],
                 "Stage1_Underwater_GoldCross", FALSE)
    ELSE ResultB(state, "Stage0_Waiting", FALSE)

MacStage1(state, current_dif, current_dea) ==
    IF current_dif > 0
    THEN ResultB([state EXCEPT !.stage = 2, !.stage2_confirmed = TRUE],
                 "Stage2_DIF_Crossed_Zero", FALSE)
    ELSE IF current_dif < current_dea
    THEN ResultB([state EXCEPT !.stage = 0, !.stage1_confirmed = FALSE],
                 "Stage0_Reset_DIF_Below_DEA", FALSE)
    ELSE ResultB(state, "Stage1_Waiting_DIF_Cross_Zero", FALSE)

MacStage2(state, current_dif, current_dea, series) ==
    IF current_dea > 0
    THEN LET n == Len(series)
             dif_crossed_zero_idx == LastCross(series, n - 1, Max(0, n - LOOKBACK))
         IN  ResultB([state EXCEPT !.stage = 3,
                                   !.max_dif = IF dif_crossed_zero_idx # NoIndex
                                               THEN MaxDifFrom(series, dif_crossed_zero_idx)
                                               ELSE current_dif],
                     "Stage3_DEA_Crossed_Zero", FALSE)
    ELSE ResultB(state, "Stage2_Waiting_DEA_Cross_Zero", FALSE)

(* Mutant: strict comparison against half the peak *)
Retraced_Strict(current_dea, max_dif) == 2 * current_dea < max_dif

(* Line 222: DEA <= max_dif * 0.5, on integers *)
Retraced(current_dea, max_dif) == 2 * current_dea <= max_dif

(* Mutant: a tracking call forgets the alert date *)
MacStage3_ForgetsDate(state, current_dif, current_dea, d) ==
    LET s == IF current_dif > state.max_dif THEN [state EXCEPT !.max_dif = current_dif]
             ELSE state
    IN  IF s.max_dif > 0 /\ Retraced(current_dea, s.max_dif)
        THEN IF s.alert_date # d
             THEN ResultB([s EXCEPT !.alert_date = d], "SIGNAL_DEA_Retraced_50pct", TRUE)
             ELSE ResultB(s, "Stage3_Already_Alerted_Today", FALSE)
        ELSE ResultB([s EXCEPT !.alert_date = None], "Stage3_Tracking", FALSE)

(* Mutant: the alert date is not stored with the alert *)
MacStage3_NoDate(state, current_dif, current_dea, d) ==
    LET s == IF current_dif > state.max_dif THEN [state EXCEPT !.max_dif = current_dif]
             ELSE state
    IN  IF s.max_dif > 0 /\ Retraced(current_dea, s.max_dif)
        THEN IF s.alert_date # d
             THEN ResultB(s, "SIGNAL_DEA_Retraced_50pct", TRUE)
             ELSE ResultB(s, "Stage3_Already_Alerted_Today", FALSE)
        ELSE ResultB(s, "Stage3_Tracking", FALSE)

MacStage3(state, current_dif, current_dea, d) ==
    LET s == IF current_dif > state.max_dif THEN [state EXCEPT !.max_dif = current_dif]
             ELSE state
    IN  IF s.max_dif > 0 /\ Retraced(current_dea, s.max_dif)
        THEN IF s.alert_date # d
             THEN ResultB([s EXCEPT !.alert_date = d], "SIGNAL_DEA_Retraced_50pct", TRUE)
             ELSE ResultB(s, "Stage3_Already_Alerted_Today", FALSE)
        ELSE ResultB(s, "Stage3_Tracking", FALSE)

FetchedB(df) ==
    df.download = "ok" /\ Len(df.series) >= MIN_BARS_B /\ df.columns = "all"

FetchFailedB(state, df) ==
    IF df.download = "ok" /\ Len(df.series) < MIN_BARS_B
    THEN ResultB(state, "Data_Insufficient", FALSE)
    ELSE ResultB(state, "Err", FALSE)

MacStateMachine(state, df, d) ==
    LET current_dif == Iloc(df.series, Len(df.series) - 1).dif
        current_dea == Iloc(df.series, Len(df.series) - 1).dea
        s == InitializeStage(state, current_dif, current_dea, df.series)
    IN  IF current_dif < 0 THEN GlobalReset(s)
        ELSE CASE s.stage = 0 -> MacStage0(s, current_dif, current_dea)
               [] s.stage = 1 -> MacStage1(s, current_dif, current_dea)
               [] s.stage = 2 -> MacStage2(s, current_dif, current_dea, df.series)
               [] s.stage = 3 -> MacStage3(s, current_dif, current_dea, d)
               [] OTHER -> ResultB(s, "Unknown_Stage", FALSE)

get_mac_status(state, df, d) ==
    IF FetchedB(df) THEN MacStateMachine(state, df, d) ELSE FetchFailedB(state, df)

(* Observer: the date on which the stage the ticker is in was entered *)
EnteredAt(was, old_stage, new_stage, d) ==
    IF new_stage = 0 THEN None
    ELSE IF new_stage # old_stage THEN d ELSE was

----------------------------------------------------------------------------
(* Actions *)

(* ret is the last call of the loop: its ticker, what it returned, and the *)
(* stage the ticker was in when it began (was)                             *)
NoCall ==
    [ticker |-> "none", was |-> 0, stage |-> 0, status |-> "none", should_alert |-> FALSE]

Count(n, should_alert) == IF should_alert /\ n < 2 THEN n + 1 ELSE n

(* Mutant: the loop steps over a ticker *)
NextPos_Skips(i, n) == IF i + 1 < n THEN i + 2 ELSE 1

(* The for loop of run_radar goes through WATCH_LIST in order; after the   *)
(* last ticker the cycle ends and the next cycle starts at the first.      *)
NextPos(i, n) == IF i < n THEN i + 1 ELSE 1

(* One requests.get per alert; a request that raises (the push service is  *)
(* not reached) is caught by the bare except and printed as failed.        *)
Push(alerts, net) ==
    [i \in 1..Len(alerts) |-> [ticker |-> alerts[i], sent |-> net = "up"]]

Range(seq) == {seq[i] : i \in 1..Len(seq)}

Start(list, d, net) ==
    /\ variant \in {"A", "B"}
    /\ WATCH_LIST = list
    /\ today = d
    /\ network = net
    /\ ticker_states = [t \in Range(list) |-> InitialStateA]
    /\ mac_states = [t \in Range(list) |-> InitialStateB]
    /\ ret = NoCall
    /\ alerts_today = [t \in Range(list) |-> 0]
    /\ scenario = [t \in Range(list) |-> NoScenario]
    /\ entered = [t \in Range(list) |-> None]
    /\ pos = 1
    /\ alert_list = <<>>
    /\ cycle = <<>>
    /\ pushed = <<>>
    /\ beat = 0

Init == Start(<<"T1">>, 1, "up")

(* Mutant: all tickers share one state record *)
ScanA_SharedRecord(t, df) ==
    /\ variant = "A"
    /\ t = WATCH_LIST[pos]
    /\ LET r == analyze_three_tracks(ticker_states[t], df, today)
           collected == IF r.should_alert THEN Append(alert_list, t) ELSE alert_list
       IN  /\ ticker_states' = [u \in Tickers |-> r.state]
           /\ ret' = [ticker |-> t, was |-> ticker_states[t].stage, stage |-> r.stage,
                      status |-> r.status, should_alert |-> r.should_alert]
           /\ alerts_today' = [alerts_today EXCEPT ![t] = Count(@, r.should_alert)]
           /\ scenario' = [scenario EXCEPT
                             ![t] = ScenarioStep(@, ticker_states[t], df, today, r.should_alert)]
           /\ entered' = [entered EXCEPT
                            ![t] = EnteredAt(@, ticker_states[t].stage, r.state.stage, today)]
           /\ IF pos = Len(WATCH_LIST)
              THEN /\ alert_list' = <<>>
                   /\ pushed' = Push(collected, network)
              ELSE /\ alert_list' = collected
                   /\ pushed' = <<>>
    /\ pos' = NextPos(pos, Len(WATCH_LIST))
    /\ cycle' = IF pos = 1 THEN <<t>> ELSE Append(cycle, t)
    /\ UNCHANGED <<variant, WATCH_LIST, today, mac_states, network, beat>>

(* One pass of the body of run_radar's loop in Variant A: the call         *)
(* analyze_three_tracks(ticker) and the collection of its alert.  The pass *)
(* for the last ticker goes on to the pushes of lines 355-366, which read  *)
(* no state record.                                                        *)
ScanA(t, df) ==
    /\ variant = "A"
    /\ t = WATCH_LIST[pos]
    /\ LET r == analyze_three_tracks(ticker_states[t], df, today)
           collected == IF r.should_alert THEN Append(alert_list, t) ELSE alert_list
       IN  /\ ticker_states' = [ticker_states EXCEPT ![t] = r.state]
           /\ ret' = [ticker |-> t, was |-> ticker_states[t].stage, stage |-> r.stage,
                      status |-> r.status, should_alert |-> r.should_alert]
           /\ alerts_today' = [alerts_today EXCEPT ![t] = Count(@, r.should_alert)]
           /\ scenario' = [scenario EXCEPT
                             ![t] = ScenarioStep(@, ticker_states[t], df, today, r.should_alert)]
           /\ entered' = [entered EXCEPT
                            ![t] = EnteredAt(@, ticker_states[t].stage, r.state.stage, today)]
           /\ IF pos = Len(WATCH_LIST)
              THEN /\ alert_list' = <<>>
                   /\ pushed' = Push(collected, network)
              ELSE /\ alert_list' = collected
                   /\ pushed' = <<>>
    /\ pos' = NextPos(pos, Len(WATCH_LIST))
    /\ cycle' = IF pos = 1 THEN <<t>> ELSE Append(cycle, t)
    /\ UNCHANGED <<variant, WATCH_LIST, today, mac_states, network, beat>>

AnalyzeA == \E t \in Tickers : \E df \in DailyBars : ScanA(t, df)

(* One pass of the body of run_radar's loop in Variant B: the call         *)
(* get_mac_status(ticker) and, when it alerts, the push of lines 269-278   *)
ScanB(t, df) ==
    /\ variant = "B"
    /\ t = WATCH_LIST[pos]
    /\ LET r == get_mac_status(mac_states[t], df, today)
           alerts == IF r.should_alert THEN <<t>> ELSE <<>>
       IN  /\ mac_states' = [mac_states EXCEPT ![t] = r.state]
           /\ ret' = [ticker |-> t, status |-> r.status, should_alert |-> r.should_alert]
           /\ alerts_today' = [alerts_today EXCEPT ![t] = Count(@, r.should_alert)]
           /\ pushed' = (IF pos = 1 THEN <<>> ELSE pushed) \o Push(alerts, network)
    /\ pos' = NextPos(pos, Len(WATCH_LIST))
    /\ cycle' = IF pos = 1 THEN <<t>> ELSE Append(cycle, t)
    /\ UNCHANGED <<variant, WATCH_LIST, today, ticker_states, scenario, entered,
                   alert_list, network, beat>>

AnalyzeB == \E t \in Tickers : \E df \in IntradayBars : ScanB(t, df)

(* The calendar date advances *)
Tick ==
    /\ today < MaxDay
    /\ today' = today + 1
    /\ alerts_today' = [t \in Tickers |-> 0]
    /\ ret' = NoCall
    /\ pushed' = <<>>
    /\ scenario' = [t \in Tickers |->
                      IF scenario[t].day = today THEN scenario[t] ELSE NoScenario]
    /\ UNCHANGED <<variant, WATCH_LIST, ticker_states, mac_states, entered,
                   pos, alert_list, cycle, network, beat>>

Next == AnalyzeA \/ AnalyzeB \/ Tick

Spec == Init /\ [][Next]_vars

(* The same program with a watch list of two tickers, started RadarDays    *)
(* dates before the last date of the model, with a push service that is    *)
(* not reached                                                             *)
RadarDays == 1

InitRadar == Start(<<"T1", "T2">>, MaxDay - RadarDays, "down")

SpecRadar == InitRadar /\ [][Next]_vars

----------------------------------------------------------------------------
(* Vocabulary of the properties *)

StateOf(t) == ticker_states[t]

FailureStatuses == {"Insufficient_Data", "Critical_Error"}

(* This step is a call for t that got bars and ran the state machine *)
Evaluated(t) == ret'.ticker = t /\ ret'.status \notin (FailureStatuses \cup {"none"})

Touched(df) == track1_touch_lower_band(df).is_touched
Reversed(df) == track2_rsi_reversal(df).is_reversed
Confirmed(df) == track3_macd_golden_cross(df).is_confirmed

Stage1Expired(t) ==
    StateOf(t).stage = 1 /\ today - StateOf(t).touch_date > STAGE1_TIMEOUT

Stage2Expired(t) ==
    StateOf(t).stage = 2 /\ today - entered[t] > STAGE2_TIMEOUT

----------------------------------------------------------------------------
(* C1: Variant A, with dates that never go back: for every ticker at most  *)
(* one call returns should_alert=True on any one calendar date.            *)
C1_OneAlertPerDate == \A t \in Tickers : alerts_today[t] <= 1

(* C1 witness: the ticker alerted today and was scanned again on that date *)
C1_Witness ==
    \E t \in Tickers :
        /\ alerts_today[t] = 1
        /\ ret.ticker = t /\ ret.status = "S3_InPosition"
        /\ StateOf(t).alert_date = today

(* C2: Variant A: every ticker's stored stage is one of 0, 1, 2, 3 in      *)
(* every reachable state.                                                  *)
C2_StageInRange == \A t \in Tickers : StateOf(t).stage \in {0, 1, 2, 3}

(* C2 witness: the last stage has been reached by a call *)
C2_Witness ==
    \E t \in Tickers :
        ret.ticker = t /\ ret.status = "S3_BUY_SIGNAL" /\ StateOf(t).stage = 3

(* C3: Variant A scenario: from stage 0, band-touch on day 1 gives stage   *)
(* 1, RSI reversal on day 2 gives stage 2, MACD confirm on day 3 gives     *)
(* stage 3 with exactly one alert, and MACD confirm on day 4 gives no      *)
(* second alert.                                                           *)
C3_Scenario ==
    \A t \in Tickers :
        LET sc == scenario[t]
            st == StateOf(t)
        IN  /\ sc.step = 1 => st.stage = 1 /\ sc.alerts = 0
            /\ sc.step = 2 => st.stage = 2 /\ sc.alerts = 0
            /\ sc.step = 3 => st.stage = 3 /\ sc.alerts = 1 /\ st.alert_date = sc.day
            /\ sc.step = 4 => st.stage = 3 /\ sc.alerts = 1 /\ st.alert_date = sc.day - 1

(* C3 witness: the four days of the scenario have been played *)
C3_Witness == \E t \in Tickers : scenario[t].step = 4 /\ scenario[t].day = today

(* C4 as stated: once a stage-1 or stage-2 timeout has expired, the next   *)
(* evaluation that got bars leaves the ticker in stage 0 whatever the      *)
(* readings are.                                                           *)
C4_Original ==
    [][\A t \in Tickers :
          ((Stage1Expired(t) \/ Stage2Expired(t)) /\ Evaluated(t))
              => StateOf(t)'.stage = 0]_vars

(* C4 amended: once a stage-1 (stage-2) timeout has expired, the next      *)
(* evaluation that got bars leaves the ticker in stage 0 unless that scan  *)
(* reads an RSI reversal (a MACD confirm), in which case the ticker        *)
(* advances to stage 2 (stage 3): the advance is tested before the timeout.*)
C4_TimeoutUnlessAdvance ==
    [][\A t \in Tickers :
          (Stage1Expired(t) \/ Stage2Expired(t)) =>
              \A df \in DailyBars :
                  (Fetched(df) /\ ScanA(t, df)) =>
                      StateOf(t)'.stage =
                          IF StateOf(t).stage = 1
                          THEN (IF Reversed(df) THEN 2 ELSE 0)
                          ELSE (IF Confirmed(df) THEN 3 ELSE 0)]_vars

(* C4 witness: a ticker whose stage-1 timeout had expired advanced to      *)
(* stage 2 on an RSI reversal                                              *)
C4_Witness ==
    \E t \in Tickers :
        /\ ret.ticker = t /\ ret.status = "S2_Reversed"
        /\ today - StateOf(t).touch_date > STAGE1_TIMEOUT

----------------------------------------------------------------------------
(* Two evaluations in a row with the same bars on the same date *)

Once(t, df) == analyze_three_tracks(StateOf(t), df, today)
Twice(t, df) == analyze_three_tracks(Once(t, df).state, df, today)

AdvanceReading(stage, df) ==
    /\ Fetched(df)
    /\ \/ stage = 0 /\ Touched(df)
       \/ stage = 1 /\ Reversed(df)
       \/ stage = 2 /\ Confirmed(df)

(* C5 as stated: evaluating a ticker twice in a row with identical bars on *)
(* the same date leaves it in the state one evaluation leaves it in.       *)
C5_Original ==
    \A t \in Tickers : \A df \in DailyBars : Twice(t, df).state = Once(t, df).state

(* C5 amended: the second of two evaluations with identical bars on the    *)
(* same date leaves the state unchanged, except when the bars hold the     *)
(* advance reading of the stage the first evaluation left the ticker in    *)
(* (band-touch in stage 0, RSI reversal in stage 1, MACD confirm in stage  *)
(* 2): then the second evaluation advances the ticker exactly one stage.   *)
C5_SecondCallAtMostOneStep ==
    \A t \in Tickers : \A df \in DailyBars :
        IF AdvanceReading(Once(t, df).state.stage, df)
        THEN Twice(t, df).state.stage = Once(t, df).state.stage + 1
        ELSE Twice(t, df).state = Once(t, df).state

(* C5 witness: a call has just moved the ticker to stage 1 on a band-touch *)
(* without reversal, and the same bars evaluated again change nothing      *)
C5_Witness ==
    \E t \in Tickers : \E df \in DailyBars :
        /\ ret.ticker = t /\ ret.status = "S1_Touched"
        /\ Fetched(df) /\ Touched(df) /\ ~Reversed(df)
        /\ StateOf(t).rsi_min = track2_rsi_reversal(df).current_rsi
        /\ analyze_three_tracks(StateOf(t), df, today).state = StateOf(t)

----------------------------------------------------------------------------
(* C6: in both variants a scan whose bar fetch fails or returns too few    *)
(* bars leaves every field of the ticker's state record as it was and      *)
(* returns no alert.                                                       *)
C6_FetchFailureKeepsState ==
    [][\A t \in Tickers :
          /\ \A df \in FetchFailures :
                 ScanA(t, df) =>
                     /\ ticker_states' = ticker_states
                     /\ ~ret'.should_alert /\ alerts_today' = alerts_today
          /\ \A df \in FetchFailuresB :
                 ScanB(t, df) =>
                     /\ mac_states' = mac_states
                     /\ ~ret'.should_alert /\ alerts_today' = alerts_today]_vars

(* C6 witness: a scan of a ticker that had reached stage 2 got no bars *)
C6_Witness ==
    \E t \in Tickers :
        /\ ret.ticker = t /\ ret.status \in FailureStatuses
        /\ StateOf(t).stage = 2 /\ StateOf(t).stage_history # <<>>

(* C6 witness, Variant B: a scan of a ticker in stage 3 got no bars *)
C6_WitnessB ==
    \E t \in Tickers :
        /\ ret.ticker = t /\ ret.status \in {"Data_Insufficient", "Err"}
        /\ mac_states[t].stage = 3 /\ mac_states[t].max_dif > 0

----------------------------------------------------------------------------
(* C7: Variant A: a scan in which a track evaluator takes its error path   *)
(* skips the ticker: its state record is unchanged.                        *)
C7_ErrorSkipsTicker ==
    [][\A t \in Tickers : \A df \in DailyBars :
          (Fetched(df) /\ df.columns # "all" /\ ScanA(t, df))
              => StateOf(t)' = StateOf(t)]_vars

(* C8 as stated: touch_date is nil exactly in the states where stage is 0. *)
C8_Original ==
    \A t \in Tickers : (StateOf(t).stage = 0) <=> (StateOf(t).touch_date = None)

(* C8 amended: touch_date is non-nil in every state where stage is         *)
(* non-zero; it is written only by the call that moves the ticker from     *)
(* stage 0 to stage 1, which sets it to today; no call clears it, so after *)
(* a return to stage 0 it keeps the date of the last touch.                *)
C8_TouchDateSetOnEntryNeverCleared ==
    /\ [](\A t \in Tickers : StateOf(t).stage # 0 => StateOf(t).touch_date # None)
    /\ [][\A t \in Tickers :
            /\ (StateOf(t).stage = 0 /\ StateOf(t)'.stage = 1)
                   => StateOf(t)'.touch_date = today
            /\ StateOf(t)'.touch_date # StateOf(t).touch_date
                   => (StateOf(t).stage = 0 /\ StateOf(t)'.stage = 1)]_vars

(* C8 witness: a reset has returned the ticker to stage 0 and touch_date   *)
(* still holds the date of the touch                                       *)
C8_Witness ==
    \E t \in Tickers :
        /\ ret.ticker = t /\ ret.status \in {"S0_Reset_Timeout", "S0_Reset_NewCycle"}
        /\ StateOf(t).stage = 0 /\ StateOf(t).touch_date # None

(* C9: Variant A: in every reachable state with stage 0 (so after every    *)
(* call that returns a ticker to stage 0) rsi_min is 100 and stage_history *)
(* is empty.                                                               *)
C9_ResetClears ==
    \A t \in Tickers :
        StateOf(t).stage = 0 =>
            StateOf(t).rsi_min = RSI_MIN_SENTINEL /\ StateOf(t).stage_history = <<>>

(* C9 witness: a call has just reset a ticker out of stage 3 *)
C9_Witness ==
    \E t \in Tickers :
        ret.ticker = t /\ ret.status = "S0_Reset_NewCycle" /\ StateOf(t).stage = 0

(* C10: Variant A: an evaluation of a stage-1 ticker that got bars and     *)
(* read no RSI reversal resets it to stage 0 with empty stage_history when *)
(* today is more than 10 days after touch_date, and leaves it in stage 1   *)
(* when it is 10 days or fewer.                                            *)
C10_Stage1Timeout ==
    [][\A t \in Tickers :
          StateOf(t).stage = 1 =>
              \A df \in DailyBars :
                  (Fetched(df) /\ ~Reversed(df) /\ ScanA(t, df)) =>
                      IF today - StateOf(t).touch_date > STAGE1_TIMEOUT
                      THEN StateOf(t)'.stage = 0 /\ StateOf(t)'.stage_history = <<>>
                      ELSE StateOf(t)'.stage = 1 /\ StateOf(t)'.stage_history # <<>>]_vars

(* C10 witness: the reset happened on the 11th day after the touch *)
C10_Witness ==
    \E t \in Tickers :
        /\ ret.ticker = t /\ ret.status = "S0_Reset_Timeout"
        /\ today - StateOf(t).touch_date = STAGE1_TIMEOUT + 1
        /\ StateOf(t).stage = 0 /\ StateOf(t).stage_history = <<>>

----------------------------------------------------------------------------
(* Vocabulary of the Variant B properties *)

MacOf(t) == mac_states[t]

CurrentDif(df) == Iloc(df.series, Len(df.series) - 1).dif
CurrentDea(df) == Iloc(df.series, Len(df.series) - 1).dea

FailureStatusesB == {"Data_Insufficient", "Err"}

(* This step is a call for t that got bars and ran the MACD state machine *)
EvaluatedB(t) ==
    variant = "B" /\ ret'.ticker = t /\ ret'.status \notin (FailureStatusesB \cup {"none"})

(* The record a full reset leaves in Variant B, whatever alert_date was *)
IsResetB(state) ==
    /\ state.stage = 0 /\ state.max_dif = 0 /\ state.alert_date = None
    /\ ~state.stage1_confirmed /\ ~state.stage2_confirmed

(* C11: in both variants a call turns a set alert_date back to nil only    *)
(* when it performs a full reset that leaves the ticker in stage 0.        *)
C11_AlertDateKept ==
    [][\A t \in Tickers :
          /\ (StateOf(t).alert_date # None /\ StateOf(t)'.alert_date = None)
                 => /\ StateOf(t)'.stage = 0
                    /\ StateOf(t)'.rsi_min = RSI_MIN_SENTINEL
                    /\ StateOf(t)'.stage_history = <<>>
          /\ (MacOf(t).alert_date # None /\ MacOf(t)'.alert_date = None)
                 => IsResetB(MacOf(t)')]_vars

(* C11 witness: the DIF<0 reset has cleared the date of today's alert *)
C11_Witness ==
    \E t \in Tickers :
        /\ variant = "B" /\ alerts_today[t] = 1
        /\ ret.ticker = t /\ ret.status = "Stage0_Reset_DIF_Below_Zero"
        /\ MacOf(t).alert_date = None

(* C12: Variant B: every call that got bars whose current DIF is negative  *)
(* ends with stage 0 and max_dif 0 and returns no alert, whatever the      *)
(* stage, the peak and DEA were; no stage rule is applied.                 *)
C12_NegativeDifResets ==
    variant = "B" =>
        \A t \in Tickers : \A df \in IntradayBars :
            (FetchedB(df) /\ CurrentDif(df) < 0) =>
                LET r == get_mac_status(MacOf(t), df, today)
                IN  /\ r.state.stage = 0 /\ r.state.max_dif = 0
                    /\ ~r.should_alert
                    /\ r.status = "Stage0_Reset_DIF_Below_Zero"

(* C12 witness: the reset took a ticker that had alerted today, so one in  *)
(* stage 3 with a positive peak                                            *)
C12_Witness ==
    \E t \in Tickers :
        /\ variant = "B" /\ alerts_today[t] = 1
        /\ ret.status = "Stage0_Reset_DIF_Below_Zero" /\ ~ret.should_alert
        /\ MacOf(t).stage = 0 /\ MacOf(t).max_dif = 0

(* C13: Variant B: a call for a ticker in stage 0 whose bars read          *)
(* DEA < DIF < 0 moves it to stage 1.                                      *)
C13_Stage0ToStage1 ==
    [][variant = "B" =>
          \A t \in Tickers :
              MacOf(t).stage = 0 =>
                  \A df \in IntradayBars :
                      (FetchedB(df) /\ CurrentDea(df) < CurrentDif(df)
                         /\ CurrentDif(df) < 0 /\ ScanB(t, df))
                          => MacOf(t)'.stage = 1]_vars

(* C14: Variant B: at most one call per ticker and calendar date returns   *)
(* should_alert = TRUE.                                                    *)
C14_OneAlertPerDateB ==
    variant = "B" => \A t \in Tickers : alerts_today[t] <= 1

(* C14 witness: a second retracement on the day of the alert was held back *)
C14_Witness ==
    \E t \in Tickers :
        /\ variant = "B" /\ alerts_today[t] = 1
        /\ ret.ticker = t /\ ret.status = "Stage3_Already_Alerted_Today"

(* C15 as stated: the stored stage of Variant B is in 0..3 in every        *)
(* reachable state.                                                        *)
C15_Original ==
    variant = "B" => \A t \in Tickers : MacOf(t).stage \in 0..3

(* C15 amended: the stored stage is None until the first call that gets    *)
(* bars, a call whose fetch failed leaves it None, and from the first call *)
(* that gets bars on it is in 0..3 and never None again.                   *)
C15_StageUnsetUntilFirstScan ==
    /\ [](\A t \in Tickers : MacOf(t).stage \in {Unset} \cup 0..3)
    /\ [][\A t \in Tickers :
            /\ EvaluatedB(t) => MacOf(t)'.stage \in 0..3
            /\ MacOf(t).stage # Unset => MacOf(t)'.stage # Unset
            /\ (MacOf(t).stage = Unset /\ MacOf(t)'.stage # Unset) => EvaluatedB(t)]_vars

(* C15 witness: the first call failed to fetch and the stage is still None *)
C15_Witness ==
    \E t \in Tickers :
        /\ variant = "B" /\ ret.ticker = t /\ ret.status \in FailureStatusesB
        /\ MacOf(t).stage = Unset

----------------------------------------------------------------------------
(* C17: Variant A: should_alert = TRUE is returned only by a call that     *)
(* finds the ticker in stage 2 and leaves it in stage 3; a call that       *)
(* begins in stage 0, 1 or 3 returns no alert.                             *)
C17_AlertOnlyOnConfirm ==
    [][\A t \in Tickers :
          (variant = "A" /\ ret'.ticker = t /\ ret'.should_alert)
              => (StateOf(t).stage = 2 /\ StateOf(t)'.stage = 3)]_vars

(* C17 witness: a call returned the alert, and a later call of the same    *)
(* date found the ticker in stage 3 and held still                         *)
C17_Witness ==
    \E t \in Tickers :
        /\ variant = "A" /\ alerts_today[t] = 1
        /\ ret.ticker = t /\ ret.was = 3 /\ ~ret.should_alert
        /\ ret.status = "S3_InPosition"

(* C18: Variant A: a call applies at most one transition: from stage s the *)
(* stored stage afterwards is s, s + 1 (for s < 3) or 0.                   *)
C18_OneTransitionPerCall ==
    [][\A t \in Tickers :
          LET s == StateOf(t).stage
          IN  StateOf(t)'.stage \in {s, 0} \cup (IF s < 3 THEN {s + 1} ELSE {})]_vars

(* C18 witness: a stage-0 call stopped at stage 1, and bars that read a    *)
(* touch, an RSI reversal and a MACD confirm at once give that very record *)
C18_Witness ==
    \E t \in Tickers :
        /\ variant = "A" /\ ret.ticker = t /\ ret.was = 0 /\ ret.status = "S1_Touched"
        /\ StateOf(t).stage = 1
        /\ \E df \in DailyBars :
              /\ Touched(df) /\ Reversed(df) /\ Confirmed(df)
              /\ analyze_three_tracks([StateOf(t) EXCEPT !.stage = 0,
                                                         !.rsi_min = RSI_MIN_SENTINEL,
                                                         !.stage_history = <<>>],
                                      df, today).state = StateOf(t)

(* C20: Variant A: the date read from the last stage_history entry of a    *)
(* stage-2 ticker is the date it entered stage 2, and a call that gets     *)
(* bars without a MACD confirm resets it (stage 0, rsi_min 100, history    *)
(* empty) exactly when today is more than 15 days after that date.         *)
C20_Stage2Timeout ==
    \A t \in Tickers :
        StateOf(t).stage = 2 =>
            /\ Len(StateOf(t).stage_history) = 2
            /\ entered[t] # None
            /\ Strptime(SplitDate(StateOf(t).stage_history[2])) = entered[t]
            /\ \A df \in DailyBars :
                  (Fetched(df) /\ ~Confirmed(df)) =>
                      LET r == analyze_three_tracks(StateOf(t), df, today)
                      IN  IF today - entered[t] > STAGE2_TIMEOUT
                          THEN /\ r.state.stage = 0
                               /\ r.state.rsi_min = RSI_MIN_SENTINEL
                               /\ r.state.stage_history = <<>>
                          ELSE r.state.stage = 2

(* C20 witness: a stage-2 ticker was reset by the timeout *)
C20_Witness ==
    \E t \in Tickers :
        /\ variant = "A"
        /\ ret.ticker = t /\ ret.was = 2 /\ ret.status = "S0_Reset_Timeout"
        /\ StateOf(t).stage = 0 /\ StateOf(t).stage_history = <<>>

----------------------------------------------------------------------------
(* What a stage-3 call of Variant B with bars df does to ticker t: the     *)
(* peak is raised first, then the alert is decided; positive_peak tells    *)
(* whether the test also asks for a peak above zero                        *)
Stage3Call(t, df, positive_peak) ==
    LET r == get_mac_status(MacOf(t), df, today)
        peak == Max(MacOf(t).max_dif, CurrentDif(df))
        retraced == (positive_peak => peak > 0) /\ 2 * CurrentDea(df) <= peak
    IN  /\ r.state.stage = 3
        /\ r.state.max_dif = peak
        /\ r.state.max_dif >= MacOf(t).max_dif
        /\ r.should_alert <=> (retraced /\ MacOf(t).alert_date # today)
        /\ r.should_alert => r.state.alert_date = today
        /\ ~r.should_alert => r.state.alert_date = MacOf(t).alert_date

(* Every call get_mac_status can make in this state for a stage-3 ticker   *)
(* with bars whose DIF is not negative                                     *)
Stage3Calls(positive_peak) ==
    variant = "B" =>
        \A t \in Tickers :
            MacOf(t).stage = 3 =>
                \A df \in IntradayBars :
                    (FetchedB(df) /\ CurrentDif(df) >= 0)
                        => Stage3Call(t, df, positive_peak)

(* C19 as stated: Variant B: a call for a stage-3 ticker with DIF >= 0     *)
(* raises max_dif to max(max_dif, DIF) and then alerts exactly when        *)
(* DEA <= 0.5 * max_dif and alert_date differs from today; an alerting     *)
(* call stores alert_date = today; max_dif does not decrease.              *)
C19_Original == Stage3Calls(FALSE)

(* C19 amended: the same, with the alert given exactly when max_dif > 0    *)
(* and DEA <= 0.5 * max_dif and alert_date differs from today.             *)
C19_Stage3PeakAndAlert == Stage3Calls(TRUE)

(* C19 witness: a stage-3 call raised the peak and alerted on the          *)
(* retracement to exactly half of it                                       *)
C19_Witness ==
    \E t \in Tickers :
        /\ variant = "B" /\ ret.ticker = t /\ ret.should_alert
        /\ MacOf(t).stage = 3 /\ MacOf(t).alert_date = today
        /\ MacOf(t).max_dif > 0

----------------------------------------------------------------------------
(* This step is a pass of run_radar's loop (the date does not move) *)
IsCall == today' = today

(* C16: in one scan cycle every ticker of the watch list is evaluated      *)
(* exactly once, in list order: the tickers evaluated so far in the cycle  *)
(* are the first ones of the list, every pass of the loop evaluates the    *)
(* ticker the loop stands at and moves on to the next whatever its call    *)
(* returned and however its pushes ended, and in every state the call for  *)
(* the ticker the loop stands at can be made.                              *)
C16_EveryTickerInOrder ==
    /\ [](/\ pos \in 1..Len(WATCH_LIST)
          /\ cycle = SubSeq(WATCH_LIST, 1, Len(cycle))
          /\ Len(cycle) = pos - 1 \/ (pos = 1 /\ Len(cycle) = Len(WATCH_LIST))
          /\ ENABLED (AnalyzeA \/ AnalyzeB))
    /\ [][IsCall =>
            /\ ret'.ticker = WATCH_LIST[pos]
            /\ ret'.status # "none"
            /\ pos' = IF pos = Len(WATCH_LIST) THEN 1 ELSE pos + 1
            /\ cycle' = SubSeq(WATCH_LIST, 1, pos)]_vars

(* C16 witness: in a cycle of Variant B the first ticker alerted and its   *)
(* push failed, the second ticker was evaluated all the same, its fetch    *)
(* failed, and the cycle is complete                                       *)
C16_Witness ==
    /\ variant = "B" /\ Len(WATCH_LIST) = 2
    /\ pos = 1 /\ cycle = WATCH_LIST
    /\ pushed = <<[ticker |-> WATCH_LIST[1], sent |-> FALSE]>>
    /\ ret.ticker = WATCH_LIST[2] /\ ret.status \in FailureStatusesB

----------------------------------------------------------------------------
(* C22: a call for one ticker writes only that ticker's state record: the  *)
(* record of a ticker changes only in the pass of the loop that evaluates  *)
(* it, so the records of all other tickers are unchanged by a call and the *)
(* next call for a ticker starts from the record its last call left.       *)
C22_OnlyOwnRecord ==
    [][\A u \in Tickers :
          (ticker_states'[u] # ticker_states[u] \/ mac_states'[u] # mac_states[u])
              => (IsCall /\ u = WATCH_LIST[pos] /\ ret'.ticker = u)]_vars

(* C22 witness: the second ticker has just been moved to stage 1 while the *)
(* first one is in stage 2                                                 *)
C22_Witness ==
    /\ variant = "A" /\ Len(WATCH_LIST) = 2
    /\ ret.ticker = WATCH_LIST[2] /\ ret.status = "S1_Touched"
    /\ StateOf(WATCH_LIST[2]).stage = 1
    /\ StateOf(WATCH_LIST[1]).stage = 2

C24_HistoryLengthIsStage ==
    \A t \in Tickers :
        /\ Len(StateOf(t).stage_history) = StateOf(t).stage
        /\ \A i \in 1..Len(StateOf(t).stage_history) :
               StateOf(t).stage_history[i][1] = <<"S1", "S2", "S3">>[i]

(* C24 witness: the alerting call has appended the third entry *)
C24_Witness ==
    \E t \in Tickers :
        /\ variant = "A" /\ ret.ticker = t /\ ret.status = "S3_BUY_SIGNAL"
        /\ StateOf(t).stage = 3 /\ Len(StateOf(t).stage_history) = 3

(* C25: Variant A: every call that moves a ticker from stage 2 to stage 3  *)
(* returns should_alert = TRUE, and no call returns S3_Already_Alerted.    *)
C25_ConfirmAlwaysAlerts ==
    variant = "A" =>
        /\ ret.status # "S3_Already_Alerted"
        /\ (ret.was = 2 /\ ret.stage = 3) => ret.should_alert

(* C25 witness: a ticker that alerted in an earlier cycle has just reached *)
(* stage 2 again, and a MACD confirm read now alerts                       *)
C25_Witness ==
    \E t \in Tickers :
        /\ variant = "A" /\ ret.ticker = t /\ ret.status = "S2_Reversed"
        /\ StateOf(t).stage = 2 /\ StateOf(t).alert_date # None
        /\ \E df \in DailyBars :
               /\ Fetched(df) /\ Confirmed(df)
               /\ analyze_three_tracks(StateOf(t), df, today).should_alert

(* C26 as stated: Variant A: the stage a call returns is the stage stored  *)
(* for the ticker after the call.                                          *)
C26_Original ==
    (variant = "A" /\ ret.ticker # "none") => ret.stage = StateOf(ret.ticker).stage

(* C26 amended: a call that got bars returns the stage it stored; a call   *)
(* that ended in insufficient data or an error returns 0 whatever the      *)
(* stored stage, which it leaves as it was.                                *)
C26_ReturnedStage ==
    (variant = "A" /\ ret.ticker # "none") =>
        IF ret.status \in FailureStatuses
        THEN ret.stage = 0 /\ StateOf(ret.ticker).stage = ret.was
        ELSE ret.stage = StateOf(ret.ticker).stage

(* C26 witness: a call for a stage-2 ticker got no bars and returned 0 *)
C26_Witness ==
    /\ variant = "A" /\ ret.ticker # "none" /\ ret.status \in FailureStatuses
    /\ ret.was = 2 /\ ret.stage = 0 /\ StateOf(ret.ticker).stage = 2

----------------------------------------------------------------------------
(* Variant A alone, scheduled fairly: the date keeps advancing up to the   *)
(* last date of the model, and calls that get bars keep occurring.  The    *)
(* pass of the loop is the one of ScanA without the record of what the     *)
(* call returned: what the program stores, and the date the stage was      *)
(* entered.  beat changes with every call that got bars, so that such a    *)
(* call is a step even when it leaves the state record as it was.          *)
InitLive == Init /\ variant = "A"

ScanLive(t, df) ==
    /\ variant = "A"
    /\ t = WATCH_LIST[pos]
    /\ LET r == analyze_three_tracks(ticker_states[t], df, today)
           collected == IF r.should_alert THEN Append(alert_list, t) ELSE alert_list
       IN  /\ ticker_states' = [ticker_states EXCEPT ![t] = r.state]
           /\ entered' = [entered EXCEPT
                            ![t] = EnteredAt(@, ticker_states[t].stage, r.state.stage, today)]
           /\ alert_list' = IF pos = Len(WATCH_LIST) THEN <<>> ELSE collected
    /\ beat' = IF Fetched(df) THEN 1 - beat ELSE beat
    /\ pos' = NextPos(pos, Len(WATCH_LIST))
    /\ cycle' = IF pos = 1 THEN <<t>> ELSE Append(cycle, t)
    /\ UNCHANGED <<variant, WATCH_LIST, today, mac_states, network,
                   ret, alerts_today, scenario, pushed>>

AnalyzeLive == \E t \in Tickers : \E df \in DailyBars : ScanLive(t, df)

ScanOK == \E t \in Tickers : \E df \in DailyBars : Fetched(df) /\ ScanLive(t, df)

NextLive == AnalyzeLive \/ Tick

SpecLive == InitLive /\ [][NextLive]_vars /\ WF_vars(Tick) /\ WF_vars(ScanOK)

(* The ticker of the one-ticker watch list *)
Watched == WATCH_LIST[1]

(* The stage's dwell time runs out within the dates of the model *)
Stage1RunsOut ==
    StateOf(Watched).stage = 1 /\ MaxDay - StateOf(Watched).touch_date > STAGE1_TIMEOUT
Stage2RunsOut ==
    StateOf(Watched).stage = 2 /\ MaxDay - entered[Watched] > STAGE2_TIMEOUT
Stage3RunsOut ==
    StateOf(Watched).stage = 3 /\ MaxDay - StateOf(Watched).alert_date > STAGE3_REARM

====
